---------------------------- MODULE Spec2Model ----------------------------
(***************************************************************************)
(* A model of pythemes (src/pythemes/__main__.py): the query matcher       *)
(* (find), the per-application engine (App.find_current_theme,             *)
(* App.has_changes, App.update) and the orchestration of a full run        *)
(* (process_theme / handle_theme_updates).                                 *)
(*                                                                         *)
(* Text.  A Python str is modelled as a sequence of atoms.  An atom is a   *)
(* maximal chunk of characters the model never looks inside:               *)
(*     "x"        an ordinary non-whitespace character                     *)
(*     "dark"     the four characters d,a,r,k (the name of a mode)         *)
(*     " "        a blank                                                  *)
(*     "\n"       the line terminator                                      *)
(*     "{theme}"  the seven characters of the placeholder (queries only)   *)
(* No atom shares a character with another one, so a substring match and  *)
(* a replacement on the characters coincide with the same operation on the *)
(* atoms, and so does a regex match as long as no two placeholders of the  *)
(* query are adjacent (two adjacent groups (\S+)(\S+) would cut an atom in  *)
(* two); the queries of the model have no adjacent placeholders.           *)
(*                                                                         *)
(* Indices returned to Python code (find, _line_idx) are 0-based as in the *)
(* source; TLA+ sequences are 1-based, so line idx is lines[idx + 1].      *)
(***************************************************************************)
EXTENDS Integers, Sequences, FiniteSets, TLC

VARIABLES
    \* ---- the query matcher called on its own (SpecFind)
    findQuery,      \* argument `query` of find
    findLines,      \* argument `list_strings` of find
    findRet,        \* what find returned: [idx, theme], or NotCalled
    \* ---- the file system and the objects of one invocation
    disk,           \* file name -> File(content), or Missing
    apps,           \* Theme.apps: the registered App objects, in order
    call,           \* the last App method called on its own (SpecApp)
    preDisk,        \* the disk when that method was entered
    \* ---- a full run (Spec)
    config,         \* INIFile.config: the sections as read from the definition
    ini,            \* INIFile.data: the parsed sections, in file order
    cmds,           \* Theme.cmds: the ModeAction objects, in order
    wallpaper,      \* Theme.wallpaper, or NoWallpaper when the attribute is unset
    restarts,       \* PROGRAMS_RESTART
    mode,           \* args.mode
    dryRun,         \* args.dry_run (Theme.dry_run and SysOps.dry_run)
    pc,             \* position in process_theme / handle_theme_updates
    cursor,         \* index of the loop the run is in
    updates,        \* Theme.updates
    commander,      \* Commander.cmds
    nErrors,        \* n_errors of handle_theme_updates
    log             \* the external effects of the run, in order

vars == <<findQuery, findLines, findRet, disk, apps, call, preDisk, config, ini,
          cmds, wallpaper, restarts, mode, dryRun, pc, cursor, updates,
          commander, nErrors, log>>

findVars == <<findQuery, findLines, findRet>>
appVars == <<disk, apps, call, preDisk>>
runVars == <<config, ini, cmds, wallpaper, restarts, mode, dryRun, pc, cursor, updates,
             commander, nErrors, log>>

---------------------------------------------------------------------------
(* Bounds of the explored inputs.                                          *)

\* the longest content of a target file, in atoms
MaxFileLen == 5

---------------------------------------------------------------------------
(* Text.                                                                   *)

NL == "\n"
PH == "{theme}"

\* the atoms of a target file, and those of a query
FileAtoms == {"x", "dark", " ", NL}
QueryAtoms == {"x", "dark", " ", PH}

\* regex class \s over the atoms (its complement is \S)
IsSpace(c) == c \in {" ", NL}

Range(s) == {s[i] : i \in 1..Len(s)}

SeqsUpTo(S, n) == UNION {[1..k -> S] : k \in 0..n}

\* s[i : i + Len(t)] == t, for a 1-based i
OccursAt(t, s, i) ==
    /\ i >= 1
    /\ i + Len(t) - 1 <= Len(s)
    /\ \A k \in 1..Len(t) : s[i + k - 1] = t[k]

\* t in s
Contains(s, t) == \E i \in 1..(Len(s) + 1) : OccursAt(t, s, i)

\* str.replace(old, new) for a non-empty old: every non-overlapping
\* occurrence, left to right
RECURSIVE StrReplace(_, _, _)
StrReplace(s, old, new) ==
    IF Len(s) < Len(old) \/ Len(old) = 0 THEN s
    ELSE IF OccursAt(old, s, 1)
         THEN new \o StrReplace(SubSeq(s, Len(old) + 1, Len(s)), old, new)
         ELSE <<s[1]>> \o StrReplace(Tail(s), old, new)

---------------------------------------------------------------------------
(* Files: a file on disk is one str; readlines cuts it after every line    *)
(* terminator, writelines writes the lines one after the other.            *)

\* what the disk holds under a file name
Missing == [exists |-> FALSE, content |-> <<>>]
File(c) == [exists |-> TRUE, content |-> c]

\* the position of the first terminator of s, or 0
FirstNL(s) ==
    IF NL \in Range(s)
    THEN CHOOSE i \in 1..Len(s) : s[i] = NL /\ \A k \in 1..(i - 1) : s[k] # NL
    ELSE 0

\* file.readlines(): every line keeps its terminator; the last line has one
\* only when the content ends with it
RECURSIVE SplitLines(_)
SplitLines(s) ==
    IF s = <<>> THEN <<>>
    ELSE IF FirstNL(s) = 0 THEN <<s>>
    ELSE <<SubSeq(s, 1, FirstNL(s))>> \o SplitLines(SubSeq(s, FirstNL(s) + 1, Len(s)))

\* file.writelines(lines)
RECURSIVE JoinLines(_)
JoinLinesDropTerminator(lines) ==
    IF lines = <<>> THEN <<>>
    ELSE SelectSeq(Head(lines), LAMBDA c : c # NL) \o JoinLines(Tail(lines))
JoinLines(lines) ==
    IF lines = <<>> THEN <<>> ELSE Head(lines) \o JoinLines(Tail(lines))

---------------------------------------------------------------------------
(* find: the query becomes the regex re.escape(query) with every           *)
(* placeholder replaced by the group (\S+); regex.search(line) takes the   *)
(* leftmost start at which the pattern matches, each group greedy.         *)

NotFound == [idx |-> -1, theme |-> <<>>]

\* the pattern pat matches line from position i on (a prefix match)
RECURSIVE RestMatches(_, _, _)
RestMatches(pat, line, i) ==
    IF pat = <<>> THEN TRUE
    ELSE IF Head(pat) = PH
         THEN \E n \in 1..(Len(line) - i + 1) :
                 /\ \A k \in i..(i + n - 1) : ~IsSpace(line[k])
                 /\ RestMatches(Tail(pat), line, i + n)
         ELSE /\ i <= Len(line)
              /\ line[i] = Head(pat)
              /\ RestMatches(Tail(pat), line, i + 1)

\* the number of literal atoms before the first placeholder of the query
LitPrefixLen(query) ==
    (CHOOSE i \in 1..Len(query) :
         query[i] = PH /\ \A k \in 1..(i - 1) : query[k] # PH) - 1

\* match.group(1) of the match of pat starting at i: the longest run of \S
\* after the literal prefix that lets the rest of the pattern match
Group1(pat, line, i) ==
    LET p == LitPrefixLen(pat)
        rest == SubSeq(pat, p + 2, Len(pat))
        start == i + p
        ok(n) == /\ \A k \in start..(start + n - 1) : ~IsSpace(line[k])
                 /\ RestMatches(rest, line, start + n)
        n == CHOOSE m \in 1..(Len(line) - start + 1) :
                 ok(m) /\ \A m2 \in (m + 1)..(Len(line) - start + 1) : ~ok(m2)
    IN SubSeq(line, start, start + n - 1)

\* regex.search(line): the captured group, or <<>> when nothing matches
\* (the group itself is never empty)
RegexSearch(pat, line) ==
    IF \E i \in 1..(Len(line) + 1) : RestMatches(pat, line, i)
    THEN LET i == CHOOSE j \in 1..(Len(line) + 1) :
                      /\ RestMatches(pat, line, j)
                      /\ \A k \in 1..(j - 1) : ~RestMatches(pat, line, k)
         IN Group1(pat, line, i)
    ELSE <<>>

\* the loop of find over the lines from 1-based position i on
RECURSIVE FindFrom(_, _, _)
FindFrom(query, lines, i) ==
    IF i > Len(lines) THEN NotFound
    ELSE IF RegexSearch(query, lines[i]) # <<>>
         THEN [idx |-> i - 1, theme |-> RegexSearch(query, lines[i])]
         ELSE FindFrom(query, lines, i + 1)

\* a find that keeps scanning and returns the last matching line
RECURSIVE FindLastFrom(_, _, _)
FindLastFrom(query, lines, i) ==
    IF i < 1 THEN NotFound
    ELSE IF RegexSearch(query, lines[i]) # <<>>
         THEN [idx |-> i - 1, theme |-> RegexSearch(query, lines[i])]
         ELSE FindLastFrom(query, lines, i - 1)

FindLast(query, lines) ==
    IF Len(lines) = 0 \/ query = <<>> \/ PH \notin Range(query) THEN NotFound
    ELSE FindLastFrom(query, lines, Len(lines))

\* a find that searches a query without placeholder as literal text
FindLiteral(query, lines) ==
    IF Len(lines) = 0 \/ query = <<>> THEN NotFound
    ELSE IF PH \notin Range(query)
    THEN IF \E i \in 1..Len(lines) : Contains(lines[i], query)
         THEN [idx |-> (CHOOSE i \in 1..Len(lines) : Contains(lines[i], query)) - 1,
               theme |-> query]
         ELSE NotFound
    ELSE FindFrom(query, lines, 1)

find(query, lines) ==
    IF Len(lines) = 0 THEN NotFound
    ELSE IF query = <<>> THEN NotFound
    ELSE IF PH \notin Range(query) THEN NotFound
    ELSE FindFrom(query, lines, 1)

---------------------------------------------------------------------------
(* App.  The status labels are the texts handed to colorize, without the   *)
(* ANSI styling; exceptions are the class names.                           *)

NoError == [mesg |-> "", occurred |-> FALSE]
NoExc == ""

\* App.new: the dataclass with its field defaults; Cmd(name, cmd) is kept as
\* the command line (Cmd.run does nothing for an empty one)
NewApp(name, file, query, light, dark, cmd, dry) ==
    [name |-> name, file |-> file, query |-> query, light |-> light,
     dark |-> dark, cmd |-> cmd, dry_run |-> dry,
     original |-> <<>>, status |-> "", line_idx |-> -1, next_theme |-> <<>>,
     error |-> NoError, lines |-> <<>>]

\* the name of a mode as text (what `current_theme == mode` compares with)
ModeText(m) == IF m = "" THEN <<>> ELSE <<m>>

\* App.get_mode: None for any mode but light and dark
GetModeSwapped(app, m) ==
    CASE m = "light" -> [none |-> FALSE, val |-> app.dark]
      [] m = "dark" -> [none |-> FALSE, val |-> app.light]
      [] OTHER -> [none |-> TRUE, val |-> <<>>]
GetMode(app, m) ==
    CASE m = "light" -> [none |-> FALSE, val |-> app.light]
      [] m = "dark" -> [none |-> FALSE, val |-> app.dark]
      [] OTHER -> [none |-> TRUE, val |-> <<>>]

\* Path.exists() of the target; an unset file is Path('.'), a directory
PathExists(d, file) == file = "" \/ d[file].exists

\* App.read_lines / Files.readlines
ReadLinesMissingAsEmpty(app, d) ==
    IF app.file = "" THEN [app |-> app, exc |-> "IsADirectoryError"]
    ELSE IF ~d[app.file].exists THEN [app |-> [app EXCEPT !.lines = <<>>], exc |-> NoExc]
    ELSE [app |-> [app EXCEPT !.lines = SplitLines(d[app.file].content)], exc |-> NoExc]
ReadLines(app, d) ==
    IF app.file = "" THEN [app |-> app, exc |-> "IsADirectoryError"]
    ELSE IF ~d[app.file].exists THEN [app |-> app, exc |-> "FileNotFoundError"]
    ELSE [app |-> [app EXCEPT !.lines = SplitLines(d[app.file].content)], exc |-> NoExc]

NoMatch == [idx |-> -1, theme |-> <<>>, none |-> TRUE]

\* the value of a one-element set: Only({e(v) : v \in {w}}) is e(w) with w
\* evaluated once
Only(S) == CHOOSE v \in S : TRUE

\* App.find_current_theme, after read_lines left r
FoundIn(r) ==
    LET a == r.app
    IN IF a.lines = <<>>
       THEN [app |-> [a EXCEPT !.error = [mesg |-> "file is empty.", occurred |-> TRUE]],
             ret |-> NoMatch, exc |-> NoExc]
       ELSE Only({
            IF f.idx = -1
            THEN [app |-> [a EXCEPT !.error = [mesg |-> "query not found in file.",
                                               occurred |-> TRUE]],
                  ret |-> NoMatch, exc |-> NoExc]
            ELSE [app |-> a, ret |-> [idx |-> f.idx, theme |-> f.theme, none |-> FALSE],
                  exc |-> NoExc]
            : f \in {find(a.query, a.lines)} })

\* App.find_current_theme
FindCurrentTheme(app, d) ==
    Only({ IF r.exc # NoExc THEN [app |-> r.app, ret |-> NoMatch, exc |-> r.exc]
           ELSE FoundIn(r)
           : r \in {ReadLines(app, d)} })

\* App.determine_next_theme
DetermineNextTheme(app, current, m) ==
    LET tm == GetMode(app, m)
    IN IF tm.none \/ tm.val = <<>>
       THEN [ret |-> <<>>, exc |-> "ThemeModeError"]
       ELSE [ret |-> StrReplace(app.lines[app.line_idx + 1], current, tm.val),
             exc |-> NoExc]

\* App.has_changes, after find_current_theme returned f: the two outcomes
\* of its last lines (`current_theme == mode`, `original != next_theme`)
Changed(a, current, m) ==
    IF current = ModeText(m) THEN FALSE ELSE a.original # a.next_theme

\* App.has_changes, after find_current_theme returned f
HasChangesFrom(f, m) ==
    IF f.exc # NoExc THEN [app |-> f.app, ret |-> FALSE, exc |-> f.exc]
    ELSE IF f.ret.idx = -1 \/ f.ret.none THEN [app |-> f.app, ret |-> FALSE, exc |-> NoExc]
    ELSE LET a2 == [f.app EXCEPT !.line_idx = f.ret.idx,
                                 !.original = f.app.lines[f.ret.idx + 1]]
         IN Only({
            IF n.exc # NoExc THEN [app |-> a2, ret |-> FALSE, exc |-> n.exc]
            ELSE [app |-> [a2 EXCEPT !.next_theme = n.ret],
                  ret |-> Changed([a2 EXCEPT !.next_theme = n.ret], f.ret.theme, m),
                  exc |-> NoExc]
            : n \in {DetermineNextTheme(a2, f.ret.theme, m)} })

\* App.has_changes
HasChanges(app, d, m) ==
    Only({ HasChangesFrom(f, m) : f \in {FindCurrentTheme(app, d)} })

\* App.replace
Replace(app, index, string) == [app EXCEPT !.lines[index + 1] = string]

\* Files.savelines
SaveLines(d, file, lines) == [d EXCEPT ![file] = File(JoinLines(lines))]

\* App.update, after has_changes returned h
UpdateFromIgnoringDryRun(h, d) ==
    LET a == h.app
        r == Replace(a, a.line_idx, a.next_theme)
    IN IF h.exc # NoExc THEN [app |-> a, disk |-> d, exc |-> h.exc]
       ELSE IF ~h.ret THEN [app |-> [a EXCEPT !.status = "no changes"], disk |-> d, exc |-> NoExc]
       ELSE [app |-> [r EXCEPT !.status = "applied"],
             disk |-> SaveLines(d, r.file, r.lines), exc |-> NoExc]
UpdateFrom(h, d) ==
    LET a == h.app
        r == Replace(a, a.line_idx, a.next_theme)
    IN IF h.exc # NoExc THEN [app |-> a, disk |-> d, exc |-> h.exc]
       ELSE IF ~h.ret THEN [app |-> [a EXCEPT !.status = "no changes"], disk |-> d, exc |-> NoExc]
       ELSE IF a.next_theme = <<>>
       THEN [app |-> [a EXCEPT !.status = "err not updated"], disk |-> d, exc |-> NoExc]
       ELSE IF a.dry_run
       THEN [app |-> [a EXCEPT !.status = "dry run"], disk |-> d, exc |-> NoExc]
       ELSE [app |-> [r EXCEPT !.status = "applied"],
             disk |-> SaveLines(d, r.file, r.lines), exc |-> NoExc]

\* App.update
Update(app, d, m) ==
    Only({ UpdateFrom(h, d) : h \in {HasChanges(app, d, m)} })

---------------------------------------------------------------------------
(* The values the variables of a specification have while it is not the    *)
(* one being run.                                                          *)

FileNames == {"f1", "f2", "f3"}

NoWallpaper == [set |-> FALSE, dark |-> "", light |-> "", random |-> "", cmd |-> "",
                dry_run |-> FALSE, error |-> NoError]

NoCall == [op |-> "", mode |-> "", ret |-> FALSE, exc |-> NoExc, found |-> NoMatch]

FindIdle ==
    /\ findQuery = <<>>
    /\ findLines = <<>>
    /\ findRet = [called |-> FALSE, idx |-> -1, theme |-> <<>>]

RunIdle ==
    /\ config = <<>>
    /\ ini = <<>>
    /\ cmds = <<>>
    /\ wallpaper = NoWallpaper
    /\ restarts = <<>>
    /\ mode = ""
    /\ dryRun = FALSE
    /\ pc = "idle"
    /\ cursor = 0
    /\ updates = 0
    /\ commander = <<>>
    /\ nErrors = 0
    /\ log = <<>>

---------------------------------------------------------------------------
(* SpecFind: find called on a query and the lines of a file.               *)

\* the longest query, in atoms
MaxQueryLen == 2

FindQueries ==
    {q \in SeqsUpTo(QueryAtoms, MaxQueryLen) :
        \A i \in 1..(Len(q) - 1) : ~(q[i] = PH /\ q[i + 1] = PH)}
FileContents == SeqsUpTo(FileAtoms, MaxFileLen)

InitFind ==
    /\ findQuery \in FindQueries
    /\ findLines \in {SplitLines(c) : c \in FileContents}
    /\ findRet = [called |-> FALSE, idx |-> -1, theme |-> <<>>]
    /\ disk = [f \in FileNames |-> Missing]
    /\ apps = <<>>
    /\ call = NoCall
    /\ preDisk = disk
    /\ RunIdle

CallFind ==
    /\ ~findRet.called
    /\ findRet' = [called |-> TRUE,
                   idx |-> find(findQuery, findLines).idx,
                   theme |-> find(findQuery, findLines).theme]
    /\ UNCHANGED <<findQuery, findLines, appVars, runVars>>

NextFind == CallFind

SpecFind == InitFind /\ [][NextFind]_vars

---------------------------------------------------------------------------
(* SpecApp: the methods of one App called on a target file, any number of  *)
(* times, in any order.                                                    *)

Modes == {"light", "dark"}
\* a mode argument that is neither light nor dark
BadMode == "nonexistentmode"

\* the values of the light and dark keys: unset, or one token
ThemeValues == {<<>>, <<"x">>, <<"dark">>}

\* the queries of an application: the placeholder alone, or with one literal
\* atom before or after it
AppQueries ==
    {<<PH>>} \cup {<<c, PH>> : c \in {"x", "dark"}} \cup {<<PH, c>> : c \in {"x", "dark"}}

\* the contents of its target file before the first call
AppContents == SeqsUpTo({"x", NL}, MaxFileLen)

InitApp ==
    /\ \E c \in {File(t) : t \in AppContents} \cup {Missing} :
          disk = [f \in FileNames |-> IF f = "f1" THEN c ELSE Missing]
    /\ \E q \in AppQueries, l \in ThemeValues, d \in ThemeValues, dry \in BOOLEAN :
          apps = <<NewApp("app", "f1", q, l, d, "", dry)>>
    /\ call = NoCall
    /\ preDisk = disk
    /\ FindIdle
    /\ RunIdle

CallFindCurrentTheme ==
    \E r \in {FindCurrentTheme(apps[1], disk)} :
       /\ apps' = <<r.app>>
       /\ call' = [op |-> "find_current_theme", mode |-> "", ret |-> FALSE,
                   exc |-> r.exc, found |-> r.ret]
       /\ preDisk' = disk
       /\ UNCHANGED <<disk, findVars, runVars>>

CallHasChanges ==
    \E m \in Modes \cup {BadMode} :
        \E r \in {HasChanges(apps[1], disk, m)} :
           /\ apps' = <<r.app>>
           /\ call' = [op |-> "has_changes", mode |-> m, ret |-> r.ret,
                       exc |-> r.exc, found |-> NoMatch]
           /\ preDisk' = disk
           /\ UNCHANGED <<disk, findVars, runVars>>

CallUpdate ==
    \E m \in Modes \cup {BadMode} :
        \E r \in {Update(apps[1], disk, m)} :
           /\ apps' = <<r.app>>
           /\ disk' = r.disk
           /\ call' = [op |-> "update", mode |-> m, ret |-> FALSE,
                       exc |-> r.exc, found |-> NoMatch]
           /\ preDisk' = disk
           /\ UNCHANGED <<findVars, runVars>>

NextApp ==
    \/ CallFindCurrentTheme
    \/ CallHasChanges
    \/ CallUpdate

SpecApp == InitApp /\ [][NextApp]_vars

---------------------------------------------------------------------------
(* Spec: one full run, from the theme that initialize_theme built to the   *)
(* end of process_theme.                                                   *)

\* the most program sections of a theme definition, and the most restart
\* targets
MaxSections == 2
MaxRestarts == 2

\* App.validate
Validate(app, d) ==
    LET err(a, m) == [a EXCEPT !.error = [mesg |-> m, occurred |-> TRUE]]
        a1 == IF app.dark = <<>> THEN err(app, "no dark theme specified.") ELSE app
        a2 == IF app.light = <<>> THEN err(a1, "no light theme specified.") ELSE a1
    IN IF app.file = "" THEN err(app, "no file specified.")
       ELSE IF app.query = <<>> THEN err(a2, "no query specified.")
       ELSE IF PH \notin Range(app.query)
       THEN err(a2, "query does not contain placeholder '{theme}'.")
       ELSE IF ~PathExists(d, app.file) THEN err(a2, "filepath do not exists.")
       ELSE FindCurrentTheme(a2, d).app

\* ModeAction.new
NewModeAction(data, dry) ==
    [name |-> data.name, light |-> data.light, dark |-> data.dark,
     cmd |-> data.cmd, dry_run |-> dry]

\* Wallpaper.new: the paths are kept as the configured texts ('' is the
\* current directory)
NewWallpaper(data, dry) ==
    LET m1 == IF data.dark = "" THEN "no 'dark' wallpaper specified." ELSE ""
        m2 == IF data.light = "" THEN "no 'light' wallpaper specified." ELSE m1
        m3 == IF data.random = "" THEN "no 'random' wallpaper specified." ELSE m2
        m4 == IF data.cmd = "" THEN "no 'cmd' wallpaper specified." ELSE m3
    IN [set |-> TRUE, dark |-> data.dark, light |-> data.light,
        random |-> data.random, cmd |-> data.cmd, dry_run |-> dry,
        error |-> [mesg |-> m4, occurred |-> m4 # ""]]

\* the loop of Theme.parse_apps over the sections from position i on
RECURSIVE ParseApps(_, _, _, _, _)
RECURSIVE ParseAppsEmptyFileIsCommand(_, _, _, _, _)
ParseAppsEmptyFileIsCommand(data, i, d, dry, acc) ==
    IF i > Len(data) THEN acc
    ELSE LET values == data[i]
         IN IF values.file = "" /\ values.name # "wallpaper"
            THEN ParseAppsEmptyFileIsCommand(data, i + 1, d, dry,
                           [acc EXCEPT !.cmds = Append(@, NewModeAction(values, dry))])
            ELSE IF values.file = ""
            THEN ParseAppsEmptyFileIsCommand(data, i + 1, d, dry, acc)
            ELSE ParseAppsEmptyFileIsCommand(data, i + 1, d, dry,
                           [acc EXCEPT !.apps = Append(@,
                               Validate(NewApp(values.name, values.file, values.query,
                                               values.light, values.dark, values.cmd, dry),
                                        d))])
ParseApps(data, i, d, dry, acc) ==
    IF i > Len(data) THEN acc
    ELSE LET values == data[i]
         IN IF values.file = "" /\ values.query = <<>> /\ values.name # "wallpaper"
            THEN ParseApps(data, i + 1, d, dry,
                           [acc EXCEPT !.cmds = Append(@, NewModeAction(values, dry))])
            ELSE IF values.file = ""
            THEN ParseApps(data, i + 1, d, dry, acc)
            ELSE ParseApps(data, i + 1, d, dry,
                           [acc EXCEPT !.apps = Append(@,
                               Validate(NewApp(values.name, values.file, values.query,
                                               values.light, values.dark, values.cmd, dry),
                                        d))])

\* the target files of a run: f1 and f2 exist, f3 does not
RunDisk ==
    [f \in FileNames |->
        CASE f = "f1" -> File(<<"x", "x", NL>>)
          [] f = "f2" -> File(<<"dark", NL, "x", NL>>)
          [] OTHER -> Missing]

Section(name, file, query, light, dark, cmd) ==
    [name |-> name, file |-> file, query |-> query, light |-> light,
     dark |-> dark, cmd |-> cmd]

\* the program sections a theme definition is made of
SectionKinds ==
    { Section("a1", "f1", <<"x", PH>>, <<"x">>, <<"dark">>, "reload-a1"),
      Section("a2", "f2", <<PH>>, <<"x">>, <<"dark">>, ""),
      Section("a3", "f1", <<PH, "x">>, <<"x">>, <<"dark">>, "reload-a3"),
      Section("nofile", "f3", <<PH>>, <<"x">>, <<"dark">>, "reload-nofile"),
      Section("nodark", "f2", <<PH>>, <<"x">>, <<>>, "reload-nodark"),
      Section("noquery", "f2", <<>>, <<"x">>, <<"dark">>, "reload-noquery"),
      Section("m1", "", <<>>, <<"x">>, <<"dark">>, "set-mode"),
      Section("skipped", "", <<PH>>, <<"x">>, <<"dark">>, "reload-skipped") }

\* section names are unique in a definition
ThemeData ==
    {data \in SeqsUpTo(SectionKinds, MaxSections) :
        \A i, j \in 1..Len(data) : i # j => data[i] # data[j]}

\* the wallpaper sections: none, complete, and one without the random key
WallpaperData ==
    { [dark |-> "wd.png", light |-> "wl.png", random |-> "walls", cmd |-> "setwall"],
      [dark |-> "wd.png", light |-> "wl.png", random |-> "", cmd |-> "setwall"] }

\* the restart section: up to MaxRestarts process names
RestartNames == [i \in 1..3 |-> CASE i = 1 -> "p1" [] i = 2 -> "p2" [] OTHER -> "p3"]
RestartLists == {[i \in 1..n |-> RestartNames[i]] : n \in 0..MaxRestarts}

\* args.mode: argparse admits light and dark, and None when -m is not given
RunModes == Modes \cup {""}

\* the position after the phase p of handle_theme_updates: the next phase
\* that has something to do
PhaseAfterAppCmdsFirst(p, cs, cm, rs) ==
    CASE p = "wallpaper" /\ cm # <<>> -> "appcmds"
      [] p = "wallpaper" /\ cs # <<>> -> "modecmds"
      [] p \in {"wallpaper", "modecmds"} /\ rs # <<>> -> "restarts"
      [] p = "appcmds" /\ cs # <<>> -> "modecmds"
      [] p = "appcmds" /\ rs # <<>> -> "restarts"
      [] OTHER -> "done"
PhaseAfter(p, cs, cm, rs) ==
    CASE p = "wallpaper" /\ cs # <<>> -> "modecmds"
      [] p \in {"wallpaper", "modecmds"} /\ cm # <<>> -> "appcmds"
      [] p \in {"wallpaper", "modecmds", "appcmds"} /\ rs # <<>> -> "restarts"
      [] OTHER -> "done"

Init ==
    /\ disk = RunDisk
    /\ config = <<>>
    /\ ini \in ThemeData
    /\ dryRun \in BOOLEAN
    /\ mode \in RunModes
    /\ restarts \in RestartLists
    /\ \E parsed \in {ParseApps(ini, 1, disk, dryRun, [apps |-> <<>>, cmds |-> <<>>])} :
          /\ apps = parsed.apps
          /\ cmds = parsed.cmds
          /\ pc = IF parsed.apps = <<>> THEN "wallpaper" ELSE "apps"
    /\ wallpaper \in {NoWallpaper} \cup {NewWallpaper(w, dryRun) : w \in WallpaperData}
    /\ cursor = 1
    /\ updates = 0
    /\ commander = <<>>
    /\ nErrors = 0
    /\ log = <<>>
    /\ call = NoCall
    /\ preDisk = disk
    /\ FindIdle

\* an entry of the log: a step of the run and what it did outside the process
Event(kind, name, outcome, done) ==
    [kind |-> kind, name |-> name, outcome |-> outcome, done |-> done]

\* process_app
ProcessAppAlways(app, d, m) ==
    Update(app, d, m)
ProcessApp(app, d, m) ==
    IF app.error.occurred
    THEN [app |-> [app EXCEPT !.status = "has err"], disk |-> d, exc |-> NoExc]
    ELSE Update(app, d, m)

\* process_theme: one iteration of the loop over theme.apps
\* (process_app exits the process when no mode is given)
AppStep ==
    /\ pc = "apps"
    /\ preDisk' = disk
    /\ UNCHANGED <<findVars, call, config, ini, cmds, wallpaper, restarts, mode, dryRun, nErrors>>
    /\ IF mode = ""
       THEN /\ pc' = "exit1"
            /\ UNCHANGED <<disk, apps, cursor, updates, commander, log>>
       ELSE \E r \in {ProcessApp(apps[cursor], disk, mode)} :
              /\ apps' = [apps EXCEPT ![cursor] = r.app]
              /\ disk' = r.disk
              /\ log' = Append(log, Event("app", r.app.name,
                                          IF r.exc # NoExc THEN r.exc ELSE r.app.status,
                                          r.exc = NoExc /\ r.app.status = "applied"))
              /\ IF r.exc # NoExc
                 THEN /\ pc' = "crashed"
                      /\ UNCHANGED <<cursor, updates, commander>>
                 ELSE /\ cursor' = IF cursor = Len(apps) THEN 1 ELSE cursor + 1
                      /\ pc' = IF cursor = Len(apps) THEN "wallpaper" ELSE "apps"
                      /\ IF r.app.error.occurred
                         THEN UNCHANGED <<updates, commander>>
                         ELSE /\ commander' = Append(commander,
                                                     [name |-> r.app.name, cmd |-> r.app.cmd])
                              /\ updates' = updates + 1

\* Theme.errors
Errors(as) == Cardinality({i \in 1..Len(as) : as[i].error.occurred})

\* what Path.exists / is_file / glob find under the random wallpaper path
RandomDirStates(w) ==
    IF w.random = "" THEN {"empty", "files"} ELSE {"missing", "file", "empty", "files"}

\* Wallpaper.randx, the directory being in state rs
Randx(rs) ==
    CASE rs = "missing" -> "FileNotFoundError"
      [] rs = "file" -> "NotADirectoryError"
      [] rs = "empty" -> "FileNotFoundError"
      [] OTHER -> NoExc

\* Wallpaper.set: the fallback self.randx() is evaluated before get(mode, ...)
\* is called; then Wallpaper.apply of the resolved path, which is a regular
\* file or not.  The outcome: an exception, or what apply did.
WallpaperSet(w, m, rs, isFile) ==
    IF Randx(rs) # NoExc THEN Randx(rs)
    ELSE IF w.error.occurred THEN "err"
    ELSE IF ~isFile THEN "InvalidFilePathError"
    ELSE IF w.dry_run THEN "dry run"
    ELSE "set"

Exceptions ==
    {"FileNotFoundError", "NotADirectoryError", "InvalidFilePathError",
     "ThemeModeError", "IsADirectoryError", "CalledProcessError", "OSError"}

\* Theme.has_updates
HasUpdates(n, as) == n > 0

\* handle_theme_updates up to the test of theme.has_updates
WallpaperStep ==
    /\ pc = "wallpaper"
    /\ UNCHANGED <<findVars, appVars, config, ini, cmds, wallpaper, restarts, mode, dryRun,
                   updates, commander, cursor>>
    /\ IF wallpaper.set
       THEN \E rs \in RandomDirStates(wallpaper), isFile \in BOOLEAN :
              \E out \in {WallpaperSet(wallpaper, mode, rs, isFile)} :
                 /\ log' = Append(log, Event("wallpaper", "wallpaper", out, out = "set"))
                 /\ IF out \in Exceptions
                    THEN /\ pc' = "crashed"
                         /\ nErrors' = Errors(apps)
                    ELSE /\ nErrors' = Errors(apps) + (IF wallpaper.error.occurred THEN 1 ELSE 0)
                         /\ pc' = IF HasUpdates(updates, apps)
                                  THEN PhaseAfter("wallpaper", cmds, commander, restarts)
                                  ELSE "done"
       ELSE /\ nErrors' = Errors(apps)
            /\ log' = log
            /\ pc' = IF HasUpdates(updates, apps)
                     THEN PhaseAfter("wallpaper", cmds, commander, restarts)
                     ELSE "done"

\* ModeAction.get_mode
ModeActionValue(c, m) == IF m = "light" THEN c.light ELSE c.dark

\* handle_theme_updates: one iteration of the loop over theme.cmds
\* (ModeAction.load)
ModeCmdStep ==
    /\ pc = "modecmds"
    /\ log' = Append(log, Event("modecmd", cmds[cursor].name,
                                ModeActionValue(cmds[cursor], mode),
                                ~cmds[cursor].dry_run))
    /\ cursor' = IF cursor = Len(cmds) THEN 1 ELSE cursor + 1
    /\ pc' = IF cursor = Len(cmds)
             THEN PhaseAfter("modecmds", cmds, commander, restarts)
             ELSE "modecmds"
    /\ UNCHANGED <<findVars, appVars, config, ini, cmds, wallpaper, restarts, mode, dryRun,
                   updates, commander, nErrors>>

\* Commander.run: one iteration of the loop over the collected commands
\* (Cmd.run; an empty command does nothing)
AppCmdStep ==
    /\ pc = "appcmds"
    /\ log' = IF commander[cursor].cmd = "" THEN log
              ELSE Append(log, Event("appcmd", commander[cursor].name,
                                     <<commander[cursor].cmd>>, ~dryRun))
    /\ cursor' = IF cursor = Len(commander) THEN 1 ELSE cursor + 1
    /\ pc' = IF cursor = Len(commander)
             THEN PhaseAfter("appcmds", cmds, commander, restarts)
             ELSE "appcmds"
    /\ UNCHANGED <<findVars, appVars, config, ini, cmds, wallpaper, restarts, mode, dryRun,
                   updates, commander, nErrors>>

\* the process ids the system can hand out, as pidof prints them
MaxPids == 3
PidTexts == {"101", "102", "103", "104"}
\* int(p) of a printed pid
IntOf(t) ==
    CASE t = "101" -> 101
      [] t = "102" -> 102
      [] t = "103" -> 103
      [] OTHER -> 104
Pids == {n \in {IntOf(t) : t \in PidTexts} : n <= 100 + MaxPids}

\* SysOps.pid: out is what `pidof name` prints, split at white space; pidof
\* prints nothing and exits with status 1 when no process has the name, and
\* check_output raises for a non-zero exit status
Pid(out) ==
    IF out = <<>> THEN [pids |-> <<>>, exc |-> "CalledProcessError"]
    ELSE [pids |-> [i \in 1..Len(out) |-> IntOf(out[i])], exc |-> NoExc]

\* SysOps.send_signal: the loop over pids from position i on; os.kill raises
\* OSError for a pid in dead; acc is what was delivered so far
RECURSIVE SendFrom(_, _, _, _, _)
SendFrom(pids, i, sig, dead, acc) ==
    IF i > Len(pids) THEN [delivered |-> acc, exc |-> NoExc]
    ELSE IF pids[i] \in dead THEN [delivered |-> acc, exc |-> "OSError"]
    ELSE SendFrom(pids, i + 1, sig, dead, Append(acc, <<pids[i], sig>>))

\* SysOps.send_signal
SendSignalSkippingDead(pids, sig, dead) ==
    [delivered |-> [i \in 1..Len(SelectSeq(pids, LAMBDA q : q \notin dead))
                      |-> <<SelectSeq(pids, LAMBDA q : q \notin dead)[i], sig>>],
     exc |-> IF \E i \in 1..Len(pids) : pids[i] \in dead THEN "OSError" ELSE NoExc]
SendSignal(pids, sig, dead) ==
    IF Len(pids) = 0 THEN [delivered |-> <<>>, exc |-> NoExc]
    ELSE SendFrom(pids, 1, sig, dead, <<>>)

\* SysOps.restart of program s: what pidof printed, which processes are gone
\* when they are signaled, SysOps.dry_run
RestartIgnoringDryRun(s, out, dead, dry) ==
    LET p == Pid(out)
    IN IF p.exc # NoExc THEN [pids |-> p.pids, delivered |-> <<>>, exc |-> p.exc,
                              outcome |-> p.exc]
       ELSE LET r == SendSignal(p.pids, "SIGUSR1", dead)
            IN [pids |-> p.pids, delivered |-> r.delivered, exc |-> r.exc,
                outcome |-> IF r.exc # NoExc THEN r.exc ELSE "restarted"]
Restart(s, out, dead, dry) ==
    LET p == Pid(out)
    IN IF p.exc # NoExc THEN [pids |-> p.pids, delivered |-> <<>>, exc |-> p.exc,
                              outcome |-> p.exc]
       ELSE IF dry THEN [pids |-> p.pids, delivered |-> <<>>, exc |-> NoExc,
                         outcome |-> "dry run"]
       ELSE LET r == SendSignal(p.pids, "SIGUSR1", dead)
            IN [pids |-> p.pids, delivered |-> r.delivered, exc |-> r.exc,
                outcome |-> IF r.exc # NoExc THEN r.exc ELSE "restarted"]

\* what pidof prints for a restart target of a run: nothing (not running),
\* one pid, two pids
RunPidOutputs == {<<>>, <<"101">>, <<"101", "102">>}

\* the signals delivered by one restart, as entries of the log
SignalEvents(s, delivered) ==
    [i \in 1..Len(delivered) |-> Event("signal", s, delivered[i], TRUE)]

\* handle_theme_updates: one iteration of the loop over PROGRAMS_RESTART
\* (SysOps.restart).  pidof finds the program running or not; each signal is
\* delivered or os.kill fails.
RestartStep ==
    /\ pc = "restarts"
    /\ UNCHANGED <<findVars, disk, apps, preDisk, config, ini, cmds, wallpaper, restarts, mode,
                   dryRun, updates, commander, nErrors>>
    /\ \E out \in RunPidOutputs :
         \E dead \in SUBSET {IntOf(t) : t \in Range(out)} :
           \E r \in {Restart(restarts[cursor], out, dead, dryRun)} :
              /\ call' = [op |-> "restart", name |-> restarts[cursor], out |-> out,
                          dead |-> dead, pids |-> r.pids, exc |-> r.exc]
              /\ log' = log \o SignalEvents(restarts[cursor], r.delivered)
                            \o <<Event("restart", restarts[cursor], r.outcome,
                                       r.outcome = "restarted")>>
              /\ IF r.exc # NoExc
                 THEN pc' = "crashed" /\ cursor' = cursor
                 ELSE /\ cursor' = IF cursor = Len(restarts) THEN 1 ELSE cursor + 1
                      /\ pc' = IF cursor = Len(restarts) THEN "done" ELSE "restarts"

Next ==
    \/ AppStep
    \/ WallpaperStep
    \/ ModeCmdStep
    \/ AppCmdStep
    \/ RestartStep

Spec == Init /\ [][Next]_vars

---------------------------------------------------------------------------
(* SpecParse: a theme definition is read, parsed (INIFile.parse) and its   *)
(* sections registered (Theme.parse_apps).                                 *)

\* the most sections of a definition
MaxConfigLen == 3

WallKeys == {"light", "dark", "random", "cmd"}
NoWall == [light |-> "", dark |-> "", random |-> "", cmd |-> ""]

\* a section as configparser holds it: the program keys (an absent key reads
\* as ''), the words of a restart section's cmd, the wallpaper keys and
\* which of them are present
Raw(name, file, query, light, dark, cmd, words, wall, opts) ==
    [name |-> name, file |-> file, query |-> query, light |-> light, dark |-> dark,
     cmd |-> cmd, words |-> words, wall |-> wall, opts |-> opts]

RawKinds ==
    { Raw("a1", "f1", <<"x", PH>>, <<"x">>, <<"dark">>, "reload-a1", <<>>, NoWall, {}),
      Raw("noquery", "f2", <<>>, <<"x">>, <<"dark">>, "reload-noquery", <<>>, NoWall, {}),
      Raw("m1", "", <<>>, <<"x">>, <<"dark">>, "set-mode", <<>>, NoWall, {}),
      Raw("skipped", "", <<PH>>, <<"x">>, <<"dark">>, "reload-skipped", <<>>, NoWall, {}),
      Raw("restart", "", <<>>, <<>>, <<>>, "", <<"p1", " ", "p2">>, NoWall, {}),
      Raw("restart", "f1", <<PH>>, <<"x">>, <<"dark">>, "", <<"p1">>, NoWall, {}),
      Raw("wallpaper", "", <<>>, <<>>, <<>>, "", <<>>,
          [light |-> "wl.png", dark |-> "wd.png", random |-> "walls", cmd |-> "setwall"],
          WallKeys),
      Raw("wallpaper", "f1", <<PH>>, <<"x">>, <<"dark">>, "", <<>>,
          [light |-> "wl.png", dark |-> "wd.png", random |-> "", cmd |-> "setwall"],
          {"light", "dark", "cmd"}),
      Raw("wallpaper", "f1", <<PH>>, <<"x">>, <<"dark">>, "", <<>>, NoWall, {}) }

\* configparser refuses a definition with two sections of one name, and
\* INIFile.read one without sections
Configs ==
    {c \in SeqsUpTo(RawKinds, MaxConfigLen) :
        /\ c # <<>>
        /\ \A i, j \in 1..Len(c) : i # j => c[i].name # c[j].name}

\* str.split() of the restart section's cmd
SplitWords(text) == SelectSeq(text, LAMBDA c : ~IsSpace(c))

\* the section of a definition with the given name
SectionNamed(c, name) == c[CHOOSE i \in 1..Len(c) : c[i].name = name]

\* parse_restart / parse_wallpaper / parse_raw_program for the section at
\* position i: st.present are the sections still in the ConfigParser
ParseSection(c, i, st) ==
    LET s1 == IF "restart" \in st.present
              THEN [st EXCEPT !.restart = @ \o SplitWords(SectionNamed(c, "restart").words),
                              !.present = @ \ {"restart"}]
              ELSE st
        s2 == IF "wallpaper" \in s1.present
              THEN [s1 EXCEPT !.data = Append(@,
                                 LET w == SectionNamed(c, "wallpaper")
                                 IN Raw("wallpaper", "", <<>>, <<>>, <<>>, "", <<>>,
                                        [k \in WallKeys |->
                                            IF k \in w.opts THEN w.wall[k] ELSE ""],
                                        w.opts)),
                              !.present = @ \ {"wallpaper"}]
              ELSE s1
    IN IF c[i].name \in s2.present
       THEN [s2 EXCEPT !.data = Append(@, Raw(c[i].name, c[i].file, c[i].query, c[i].light,
                                              c[i].dark, c[i].cmd, <<>>, NoWall, {}))]
       ELSE s2

\* INIFile.parse: the loop over config.sections()
RECURSIVE ParseFrom(_, _, _)
ParseFrom(c, i, st) ==
    IF i > Len(c) THEN st ELSE ParseFrom(c, i + 1, ParseSection(c, i, st))

INIFileParse(c) ==
    ParseFrom(c, 1, [present |-> {c[i].name : i \in 1..Len(c)}, data |-> <<>>,
                     restart |-> <<>>])

\* Theme.parse_apps: the wallpaper entry is taken out of the data when it
\* has a key, then the loop over the sections left
ThemeParseApps(data, d, dry) ==
    LET hasWall == \E i \in 1..Len(data) : data[i].name = "wallpaper" /\ data[i].opts # {}
        left == IF hasWall THEN SelectSeq(data, LAMBDA v : v.name # "wallpaper") ELSE data
        parsed == ParseApps(left, 1, d, dry, [apps |-> <<>>, cmds |-> <<>>])
    IN [apps |-> parsed.apps, cmds |-> parsed.cmds, data |-> left,
        wallpaper |-> IF hasWall
                      THEN NewWallpaper(SectionNamed(data, "wallpaper").wall, dry)
                      ELSE NoWallpaper]

InitParse ==
    /\ config \in Configs
    /\ disk = RunDisk
    /\ apps = <<>>
    /\ call = NoCall
    /\ preDisk = disk
    /\ FindIdle
    /\ ini = <<>>
    /\ cmds = <<>>
    /\ wallpaper = NoWallpaper
    /\ restarts = <<>>
    /\ mode = ""
    /\ dryRun = FALSE
    /\ pc = "read"
    /\ cursor = 0
    /\ updates = 0
    /\ commander = <<>>
    /\ nErrors = 0
    /\ log = <<>>

\* initialize_theme: Theme.load (INIFile.parse) and Theme.parse_apps, which
\* raises ValueError when no data is left
LoadTheme ==
    /\ pc = "read"
    /\ \E p \in {INIFileParse(config)} :
          /\ restarts' = p.restart
          /\ IF p.data = <<>>
             THEN /\ pc' = "crashed"
                  /\ ini' = p.data
                  /\ UNCHANGED <<apps, cmds, wallpaper>>
             ELSE \E t \in {ThemeParseApps(p.data, disk, dryRun)} :
                     /\ pc' = "parsed"
                     /\ ini' = t.data
                     /\ apps' = t.apps
                     /\ cmds' = t.cmds
                     /\ wallpaper' = t.wallpaper
    /\ UNCHANGED <<findVars, disk, call, preDisk, config, mode, dryRun, cursor, updates,
                   commander, nErrors, log>>

NextParse == LoadTheme

SpecParse == InitParse /\ [][NextParse]_vars

---------------------------------------------------------------------------
(* SpecDiff: App.diff called once on an application, validated or not.     *)

Max(a, b) == IF a >= b THEN a ELSE b
Min(a, b) == IF a <= b THEN a ELSE b

\* ''.join(lines)
RECURSIVE Concat(_)
Concat(lines) == IF lines = <<>> THEN <<>> ELSE Head(lines) \o Concat(Tail(lines))

\* Differ.changes_with_indicators: the chunk itself when nothing differs,
\* else the rendered lines of difflib.ndiff (kept as the two chunks); the
\* result is the empty string only for an empty, unchanged chunk
Rendered(old, new) ==
    [empty |-> old = new /\ old = <<>>, old |-> old, new |-> new]

NoDiff == [empty |-> TRUE, old |-> <<>>, new |-> <<>>]

\* the context of App.diff around line idx (0-based): lines[start:end]
Chunk(lines, idx) ==
    SubSeq(lines, Max(0, idx - 2) + 1, Min(Len(lines), idx + 2))

\* App.diff
Diff(app, d, m) ==
    IF m = "" THEN [app |-> app, ret |-> NoDiff, exc |-> NoExc]
    ELSE IF app.error.occurred
    THEN [app |-> [app EXCEPT !.status = "has err"], ret |-> NoDiff, exc |-> NoExc]
    ELSE Only({
         IF h.exc # NoExc THEN [app |-> h.app, ret |-> NoDiff, exc |-> h.exc]
         ELSE IF ~h.ret
         THEN [app |-> [h.app EXCEPT !.status = "no changes"], ret |-> NoDiff,
               exc |-> NoExc]
         ELSE [app |-> [h.app EXCEPT !.status = "has changes"],
               ret |-> Rendered(Concat(Chunk(h.app.lines, h.app.line_idx)),
                                StrReplace(Concat(Chunk(h.app.lines, h.app.line_idx)),
                                           h.app.original, h.app.next_theme)),
               exc |-> NoExc]
         : h \in {HasChanges(app, d, m)} })

InitDiff ==
    /\ \E c \in {File(t) : t \in AppContents} \cup {Missing} :
          disk = [f \in FileNames |-> IF f = "f1" THEN c ELSE Missing]
    /\ \E q \in AppQueries, l \in ThemeValues, dk \in ThemeValues, validated \in BOOLEAN :
          apps = <<IF validated
                   THEN Validate(NewApp("app", "f1", q, l, dk, "", FALSE), disk)
                   ELSE NewApp("app", "f1", q, l, dk, "", FALSE)>>
    /\ call = NoCall
    /\ preDisk = disk
    /\ FindIdle
    /\ RunIdle

CallDiff ==
    /\ call.op = ""
    /\ \E m \in Modes \cup {BadMode, ""} :
          \E r \in {Diff(apps[1], disk, m)} :
             /\ apps' = <<r.app>>
             /\ call' = [op |-> "diff", mode |-> m, ret |-> r.ret, exc |-> r.exc,
                         erred |-> apps[1].error.occurred]
    /\ preDisk' = disk
    /\ UNCHANGED <<disk, findVars, runVars>>

NextDiff == CallDiff

SpecDiff == InitDiff /\ [][NextDiff]_vars

---------------------------------------------------------------------------
(* SpecValidate: App.validate called once on an application built from any *)
(* combination of set and unset fields.                                    *)

\* the file key: unset, an existing file, a file that does not exist
ValidateFiles == {"", "f1", "f3"}
\* the query key: unset, without the placeholder, with it
ValidateQueries == {<<>>, <<"x">>, <<PH>>, <<"x", PH>>}
\* the content of the existing file
ValidateContents == {<<>>, <<"x", NL>>, <<"x", "x", NL>>, <<"dark", NL>>}

InitValidate ==
    /\ \E c \in ValidateContents :
          disk = [f \in FileNames |-> IF f = "f1" THEN File(c) ELSE Missing]
    /\ \E f \in ValidateFiles, q \in ValidateQueries, l \in ThemeValues, d \in ThemeValues :
          apps = <<NewApp("app", f, q, l, d, "", FALSE)>>
    /\ call = NoCall
    /\ preDisk = disk
    /\ FindIdle
    /\ RunIdle

CallValidate ==
    /\ call = NoCall
    /\ apps' = <<Validate(apps[1], disk)>>
    /\ call' = [NoCall EXCEPT !.op = "validate"]
    /\ preDisk' = disk
    /\ UNCHANGED <<disk, findVars, runVars>>

NextValidate == CallValidate

SpecValidate == InitValidate /\ [][NextValidate]_vars

---------------------------------------------------------------------------
(* SpecSignal: SysOps.send_signal called once on a list of pids, some of   *)
(* which os.kill cannot signal.                                            *)

Signals == {"SIGUSR1", "SIGTERM"}
PidLists == SeqsUpTo(Pids, MaxPids)

InitSignal ==
    /\ \E pids \in PidLists, sig \in Signals, dead \in SUBSET Pids :
          call = [op |-> "", pids |-> pids, sig |-> sig, dead |-> dead,
                  delivered |-> <<>>, exc |-> NoExc]
    /\ disk = [f \in FileNames |-> Missing]
    /\ apps = <<>>
    /\ preDisk = disk
    /\ FindIdle
    /\ RunIdle

CallSendSignal ==
    /\ call.op = ""
    /\ \E r \in {SendSignal(call.pids, call.sig, call.dead)} :
          call' = [call EXCEPT !.op = "send_signal", !.delivered = r.delivered,
                               !.exc = r.exc]
    /\ UNCHANGED <<disk, apps, preDisk, findVars, runVars>>

NextSignal == CallSendSignal

SpecSignal == InitSignal /\ [][NextSignal]_vars

---------------------------------------------------------------------------
(* What it means for a line to match a query, stated without the regex:    *)
(* the line contains the text of the query with every placeholder standing *)
(* for some non-empty token without whitespace.                            *)

\* the tokens of a line: its non-empty substrings without whitespace
Tokens(line) ==
    {SubSeq(line, i, j) : i \in 1..Len(line), j \in 1..Len(line)} \
        {t \in {SubSeq(line, i, j) : i \in 1..Len(line), j \in 1..Len(line)} :
            t = <<>> \/ \E k \in 1..Len(t) : IsSpace(t[k])}

\* the texts the query stands for, its placeholders drawn from T
RECURSIVE Instances(_, _)
Instances(q, T) ==
    IF q = <<>> THEN {<<>>}
    ELSE {h \o r : h \in (IF Head(q) = PH THEN T ELSE {<<Head(q)>>}),
                   r \in Instances(Tail(q), T)}

LineMatches(q, line) ==
    \E w \in Instances(q, Tokens(line)) : Contains(line, w)

OnePlaceholder(q) == Cardinality({i \in 1..Len(q) : q[i] = PH}) = 1

\* for a query pre {theme} suf: t stands at the placeholder of an occurrence
\* of the query that starts at position i of the line
TokenAt(q, line, i, t) ==
    LET p == LitPrefixLen(q)
    IN /\ t \in Tokens(line)
       /\ OccursAt(SubSeq(q, 1, p) \o t \o SubSeq(q, p + 2, Len(q)), line, i)

---------------------------------------------------------------------------
(* Claims about find (SpecFind).                                           *)

\* C5: for a query with exactly one placeholder and lines of which at least
\* one matches, find returns the smallest index of a matching line, and the
\* token it returns stands at the placeholder of the leftmost occurrence of
\* the query on that line (the longest such token); a later matching line is
\* never returned.
C5_FindFirstMatch ==
    (/\ findRet.called
     /\ OnePlaceholder(findQuery)
     /\ \E k \in 1..Len(findLines) : LineMatches(findQuery, findLines[k]))
    => LET k0 == CHOOSE k \in 1..Len(findLines) :
                    /\ LineMatches(findQuery, findLines[k])
                    /\ \A j \in 1..(k - 1) : ~LineMatches(findQuery, findLines[j])
           line == findLines[k0]
           i0 == CHOOSE i \in 1..Len(line) :
                    /\ \E t \in Tokens(line) : TokenAt(findQuery, line, i, t)
                    /\ \A j \in 1..(i - 1) :
                          ~\E t \in Tokens(line) : TokenAt(findQuery, line, j, t)
       IN /\ findRet.idx = k0 - 1
          /\ TokenAt(findQuery, line, i0, findRet.theme)
          /\ \A t \in Tokens(line) :
                TokenAt(findQuery, line, i0, t) => Len(t) <= Len(findRet.theme)

\* C5 witness: two lines match, the second with another token, and find
\* returned the first
C5_Witness ==
    /\ findRet.called
    /\ OnePlaceholder(findQuery)
    /\ Len(findLines) = 2
    /\ LineMatches(findQuery, findLines[1])
    /\ LineMatches(findQuery, findLines[2])
    /\ findLines[1] # findLines[2]
    /\ findRet.idx = 0
    /\ Len(findQuery) = 2

\* C6: find returns the sentinel (-1, '') when the line list is empty, when
\* the query is empty, when the query has no placeholder, or when no line
\* matches the query.
C6_FindNotFound ==
    (/\ findRet.called
     /\ \/ findLines = <<>>
        \/ findQuery = <<>>
        \/ PH \notin Range(findQuery)
        \/ \A k \in 1..Len(findLines) : ~LineMatches(findQuery, findLines[k]))
    => (findRet.idx = -1 /\ findRet.theme = <<>>)

\* C6 witness: a query without placeholder whose text stands on a line, and
\* find returned the sentinel
C6_Witness ==
    /\ findRet.called
    /\ findQuery # <<>>
    /\ PH \notin Range(findQuery)
    /\ \E k \in 1..Len(findLines) : Contains(findLines[k], findQuery)
    /\ findRet.idx = -1
    /\ findRet.theme = <<>>

---------------------------------------------------------------------------
(* Claims about App.update and App.has_changes (SpecApp).                  *)

TheApp == apps[1]

\* the lines of the target file before and after the last call
LinesBefore == SplitLines(preDisk[TheApp.file].content)
LinesAfter == SplitLines(disk[TheApp.file].content)

\* the application's value for a mode, and the other mode
ValueOf(app, m) == IF m = "light" THEN app.light ELSE app.dark
OtherMode(m) == IF m = "light" THEN "dark" ELSE "light"

\* the last call was update(mode), it returned, and left status st
Updated(st) ==
    /\ call.op = "update"
    /\ call.exc = NoExc
    /\ TheApp.status = st

\* the value the query captures in the file the last call started from
\* (<<>> when the file is missing or the query matches no line)
CapturedBefore ==
    IF preDisk[TheApp.file].exists
    THEN find(TheApp.query, LinesBefore).theme
    ELSE <<>>

\* both values of the application are set (as validate requires) and differ
ValuesSet ==
    /\ TheApp.light # <<>>
    /\ TheApp.dark # <<>>
    /\ TheApp.light # TheApp.dark

\* C1 (as claimed): after update(M) was applied to the file of an
\* application whose values are set and differ, a following has_changes(M) on the
\* resulting file returns false.
C1_Idempotent ==
    (Updated("applied") /\ ValuesSet) => ~HasChanges(TheApp, disk, call.mode).ret

C3_DryRunKeepsDisk ==
    (call.op = "update" /\ TheApp.dry_run) =>
        /\ disk = preDisk
        /\ TheApp.status # "applied"
        /\ call.exc = NoExc =>
              IF HasChanges(TheApp, preDisk, call.mode).ret
              THEN TheApp.status = "dry run"
              ELSE TheApp.status = "no changes"

\* C3 witness: a dry-run update of a file that has changes
C3_Witness ==
    /\ Updated("dry run")
    /\ TheApp.dry_run
    /\ HasChanges(TheApp, preDisk, call.mode).ret
    /\ disk = preDisk

\* the file of the last call already held the application's value for mode m
AlreadyIn(m) ==
    /\ preDisk[TheApp.file].exists
    /\ CapturedBefore # <<>>
    /\ CapturedBefore = ValueOf(TheApp, m)

\* C4, the part that needs no amendment: when the captured value is the
\* application's value for the requested mode, has_changes(mode) is false
\* and update(mode) sets 'no changes' and writes nothing.
C4_NoOp ==
    /\ (call.op = "has_changes" /\ call.mode \in Modes /\ AlreadyIn(call.mode))
          => (call.exc = NoExc /\ ~call.ret)
    /\ (call.op = "update" /\ call.mode \in Modes /\ AlreadyIn(call.mode))
          => (call.exc = NoExc /\ TheApp.status = "no changes" /\ disk = preDisk)

\* C4 (as claimed): ... and has_changes for the other mode is true when the
\* two mode values differ (stated for an application whose values are set).
C4_AsClaimed ==
    /\ C4_NoOp
    /\ (/\ call.op = "has_changes"
        /\ call.mode \in Modes
        /\ ValuesSet
        /\ AlreadyIn(OtherMode(call.mode))
        /\ TheApp.light # TheApp.dark)
          => (call.exc = NoExc /\ call.ret)

\* C4 (amended): ... and has_changes for the other mode is true when the two
\* mode values differ, the other mode's value is not empty and the captured
\* value is not the name of the other mode.
C4_Amended ==
    /\ C4_NoOp
    /\ (/\ call.op = "has_changes"
        /\ call.mode \in Modes
        /\ AlreadyIn(OtherMode(call.mode))
        /\ TheApp.light # TheApp.dark
        /\ ValueOf(TheApp, call.mode) # <<>>
        /\ CapturedBefore # ModeText(call.mode))
          => (call.exc = NoExc /\ call.ret)

\* C4 witness: update(mode) of a file already in that mode left 'no changes'
\* (the no-op), the file having been written to that mode by an earlier call
C4_Witness ==
    /\ call.op = "update"
    /\ call.mode \in Modes
    /\ AlreadyIn(call.mode)
    /\ TheApp.status = "no changes"
    /\ TheApp.light # TheApp.dark
    /\ ~TheApp.dry_run
    /\ disk = preDisk
    /\ Contains(disk[TheApp.file].content, <<"dark">>)

---------------------------------------------------------------------------
(* Claims about a full run (Spec).                                         *)

\* the phases of a run, in the order the claim gives them
Rank(kind) ==
    CASE kind = "app" -> 1
      [] kind = "wallpaper" -> 2
      [] kind = "modecmd" -> 3
      [] kind = "appcmd" -> 4
      [] OTHER -> 5

EventsOf(kind) == SelectSeq(log, LAMBDA e : e.kind = kind)

\* s is the beginning of the names of t
NamesPrefix(s, t) ==
    /\ Len(s) <= Len(t)
    /\ \A i \in 1..Len(s) : s[i].name = t[i].name

\* the collected commands that Cmd.run executes (the non-empty ones)
CollectedCmds == SelectSeq(commander, LAMBDA c : c.cmd # "")

CommandPhaseReached ==
    \/ pc \in {"modecmds", "appcmds", "restarts"}
    \/ \E i \in 1..Len(log) : Rank(log[i].kind) >= 3

\* C7: in a run that reaches the command phase, the applications are
\* processed one after the other in registration order and all of them
\* before the wallpaper is set; the wallpaper manager is invoked exactly once
\* when a wallpaper is configured (and never otherwise), before any mode
\* command; every mode command runs before any per-application command,
\* every per-application command before any restart, and the restart targets
\* are handled in the order they were declared.
C7_PhaseOrder ==
    /\ \A a, b \in 1..Len(log) : a < b => Rank(log[a].kind) <= Rank(log[b].kind)
    /\ NamesPrefix(EventsOf("app"), apps)
    /\ NamesPrefix(EventsOf("modecmd"), cmds)
    /\ NamesPrefix(EventsOf("appcmd"), CollectedCmds)
    /\ Len(EventsOf("restart")) <= Len(restarts)
    /\ \A i \in 1..Len(EventsOf("restart")) : EventsOf("restart")[i].name = restarts[i]
    /\ Len(EventsOf("wallpaper")) <= 1
    /\ (\E i \in 1..Len(log) : Rank(log[i].kind) >= 2)
          => Len(EventsOf("app")) = Len(apps)
    /\ CommandPhaseReached
          => /\ Len(EventsOf("wallpaper")) = (IF wallpaper.set THEN 1 ELSE 0)
             /\ Len(EventsOf("app")) = Len(apps)
    /\ (pc \in {"appcmds", "restarts"} \/ \E i \in 1..Len(log) : Rank(log[i].kind) >= 4)
          => Len(EventsOf("modecmd")) = Len(cmds)
    /\ (pc = "restarts" \/ \E i \in 1..Len(log) : Rank(log[i].kind) >= 5)
          => Len(EventsOf("appcmd")) = Len(CollectedCmds)
    /\ (pc = "done" /\ CommandPhaseReached)
          => Len(EventsOf("restart")) = Len(restarts)

\* C7 witness: a finished run that went through every phase: an application,
\* the wallpaper, a mode command, an application command and two restarts
C7_Witness ==
    /\ pc = "done"
    /\ Len(log) = 6
    /\ log[1].kind = "app"
    /\ log[2].kind = "wallpaper"
    /\ log[3].kind = "modecmd"
    /\ log[4].kind = "appcmd"
    /\ log[5].kind = "restart" /\ log[5].name = "p1"
    /\ log[6].kind = "restart" /\ log[6].name = "p2"

NoAppUpdated == \A i \in 1..Len(apps) : apps[i].status # "applied"

\* C8 (as claimed): in a run in which zero applications were updated no mode
\* command is executed, no per-application command is executed and no
\* restart signal is sent, while the wallpaper manager was invoked before
\* the run ended.
C8_NoUpdatesNoCommands ==
    NoAppUpdated =>
        /\ \A i \in 1..Len(log) :
              log[i].kind \in {"modecmd", "appcmd", "restart"} => ~log[i].done
        /\ (pc = "done" /\ wallpaper.set) => Len(EventsOf("wallpaper")) = 1

\* C9 (as claimed): an entity with a recorded error is skipped and does not
\* stop the run: an application with an error is not written and never ends
\* the run, the other applications are still processed, and a wallpaper with
\* a recorded error does not end the run either.
C9_FailureIsolation ==
    /\ \A i \in 1..Len(log) :
          (log[i].kind = "app" /\ log[i].outcome = "has err") => ~log[i].done
    /\ \A i \in 1..Len(log) : log[i].kind = "app" => log[i].outcome \notin Exceptions
    /\ (\E i \in 1..Len(log) : Rank(log[i].kind) >= 2)
          => \A i \in 1..Len(apps) :
                ~apps[i].error.occurred
                    => apps[i].status \in {"applied", "no changes", "dry run"}
    /\ (wallpaper.set /\ wallpaper.error.occurred)
          => \A i \in 1..Len(log) :
                log[i].kind = "wallpaper" => log[i].outcome = "err"

\* C10 (as claimed): with a wallpaper section that has no 'random' path,
\* setting the wallpaper with mode "" leaves the wallpaper marked errored and
\* does not end the run.
C10_NoRandomPath ==
    (/\ wallpaper.set
     /\ wallpaper.random = ""
     /\ mode = ""
     /\ Len(EventsOf("wallpaper")) > 0)
    => /\ wallpaper.error.occurred
       /\ pc # "crashed"
       /\ EventsOf("wallpaper")[1].outcome \notin Exceptions

---------------------------------------------------------------------------
(* Claims about App.validate (SpecValidate).                               *)

\* the message of the first failing condition of an application, in the
\* order file, dark, light, query, placeholder, path; "" when none fails
FirstFailing(a, d) ==
    IF a.file = "" THEN "no file specified."
    ELSE IF a.dark = <<>> THEN "no dark theme specified."
    ELSE IF a.light = <<>> THEN "no light theme specified."
    ELSE IF a.query = <<>> THEN "no query specified."
    ELSE IF PH \notin Range(a.query) THEN "query does not contain placeholder '{theme}'."
    ELSE IF ~d[a.file].exists THEN "filepath do not exists."
    ELSE ""

\* the query of the application is found in its (existing) file
QueryFound(a, d) ==
    \E i \in 1..Len(SplitLines(d[a.file].content)) :
        LineMatches(a.query, SplitLines(d[a.file].content)[i])

\* C11 (as claimed): after validate() on an application with a failing
\* condition, error.occurred is true and error.mesg is the message of the
\* first failing condition in the order file, dark, light, query,
\* placeholder, path; with no failing condition (and the query present in
\* the file) error.occurred stays false.
C11_FirstFailingMessage ==
    call.op = "validate" =>
        IF FirstFailing(apps[1], disk) # ""
        THEN /\ apps[1].error.occurred
             /\ apps[1].error.mesg = FirstFailing(apps[1], disk)
        ELSE QueryFound(apps[1], disk) => ~apps[1].error.occurred

---------------------------------------------------------------------------
(* Claims about the process lookup and the signals.                        *)

\* C12 (as claimed): the pid lookup of a restart target returns the
\* integers of the pids the lookup utility printed, and the empty list, not
\* an error, when the utility finds no process; restarting a target that is
\* not running does not end the run.
C12_PidLookup ==
    call.op = "restart" =>
        /\ call.exc # "CalledProcessError"
        /\ Len(call.pids) = Len(call.out)
        /\ \A i \in 1..Len(call.out) : call.pids[i] = IntOf(call.out[i])
        /\ call.out = <<>> => (call.pids = <<>> /\ pc # "crashed")

\* the position of the first pid of the call that cannot be signaled, or
\* one past the end of the list
FirstDead ==
    IF \E i \in 1..Len(call.pids) : call.pids[i] \in call.dead
    THEN CHOOSE i \in 1..Len(call.pids) :
            /\ call.pids[i] \in call.dead
            /\ \A j \in 1..(i - 1) : call.pids[j] \notin call.dead
    ELSE Len(call.pids) + 1

\* C13: send_signal(pids, signal) delivers the given signal to each pid
\* once, in list order, up to the first pid whose delivery fails; nothing is
\* delivered for an empty list; after the first failure no later pid is
\* signaled and the OS error reaches the caller; without a failure every pid
\* is signaled and the call returns.
C13_SendSignal ==
    call.op = "send_signal" =>
        /\ Len(call.delivered) = FirstDead - 1
        /\ \A i \in 1..Len(call.delivered) : call.delivered[i] = <<call.pids[i], call.sig>>
        /\ call.exc = (IF FirstDead <= Len(call.pids) THEN "OSError" ELSE NoExc)
        /\ call.pids = <<>> => (call.delivered = <<>> /\ call.exc = NoExc)

\* C13 witness: a delivery, then a failure, and a later pid that could have
\* been signaled and was not
C13_Witness ==
    /\ call.op = "send_signal"
    /\ call.exc = "OSError"
    /\ Len(call.delivered) >= 1
    /\ \E j \in (FirstDead + 1)..Len(call.pids) : call.pids[j] \notin call.dead

---------------------------------------------------------------------------
(* Claims about one application (SpecApp), continued.                      *)

\* C14: find_current_theme() and has_changes(mode) on an application whose
\* file does not exist raise FileNotFoundError, for light, dark and an
\* invalid mode alike (the file is read before the mode is looked at), and
\* leave no error recorded on the application.
C14_MissingFileRaises ==
    (/\ call.op \in {"find_current_theme", "has_changes"}
     /\ ~preDisk[TheApp.file].exists)
    => /\ call.exc = "FileNotFoundError"
       /\ ~TheApp.error.occurred
       /\ TheApp.error.mesg = ""

\* C14 witness: has_changes called with an invalid mode on a missing file
C14_Witness ==
    /\ call.op = "has_changes"
    /\ call.mode = BadMode
    /\ ~preDisk[TheApp.file].exists
    /\ call.exc = "FileNotFoundError"

---------------------------------------------------------------------------
(* Claims about loading a theme definition (SpecParse).                    *)

IsApp(name) == \E i \in 1..Len(apps) : apps[i].name = name
IsCmd(name) == \E i \in 1..Len(cmds) : cmds[i].name = name

\* the sections of the definition other than restart and wallpaper
ProgramSections ==
    {i \in 1..Len(config) : config[i].name \notin {"restart", "wallpaper"}}

\* what holds of the classification whichever way the empty file is read
ClassifiedByShape ==
    /\ ~IsApp("restart") /\ ~IsCmd("restart")
    /\ ~IsApp("wallpaper") /\ ~IsCmd("wallpaper")
    /\ \A i \in 1..Len(ini) : ini[i].name # "restart"
    /\ (\E i \in 1..Len(config) : config[i].name = "restart")
          => restarts = SplitWords(SectionNamed(config, "restart").words)
    /\ \A i, j \in 1..Len(apps) : apps[i].name = apps[j].name => i = j
    /\ \A i, j \in 1..Len(cmds) : cmds[i].name = cmds[j].name => i = j
    /\ \A i \in ProgramSections :
          /\ IsCmd(config[i].name) <=> (config[i].file = "" /\ config[i].query = <<>>)
          /\ IsApp(config[i].name) <=> config[i].file # ""
          /\ ~(IsCmd(config[i].name) /\ IsApp(config[i].name))

\* C15 (as claimed): ... and every section with an empty file is skipped
\* and registers nothing.
C15_AsClaimed ==
    pc = "parsed" =>
        /\ ClassifiedByShape
        /\ \A i \in ProgramSections :
              config[i].file = "" => (~IsCmd(config[i].name) /\ ~IsApp(config[i].name))

\* C15 (amended): when a definition is loaded the restart and wallpaper
\* sections are consumed and never become an application or a mode command;
\* every other section is exactly one of: a mode command (no file and no
\* query), an application (file non-empty), or skipped; the skipped sections,
\* which register nothing, are those with an empty file and a non-empty
\* query.
C15_Amended ==
    pc = "parsed" =>
        /\ ClassifiedByShape
        /\ \A i \in ProgramSections :
              (config[i].file = "" /\ config[i].query # <<>>)
                  <=> (~IsCmd(config[i].name) /\ ~IsApp(config[i].name))

\* C15 witness: a definition with a mode command, a skipped section and a
\* wallpaper section that has a file key, loaded
C15_Witness ==
    /\ pc = "parsed"
    /\ Len(config) = 3
    /\ \E i, j, k \in 1..Len(config) :
          /\ config[i].name = "m1" /\ IsCmd("m1")
          /\ config[j].name = "skipped" /\ ~IsCmd("skipped") /\ ~IsApp("skipped")
          /\ config[k].name = "wallpaper" /\ config[k].file # ""
    /\ wallpaper.set

---------------------------------------------------------------------------
(* Claims about a full run (Spec), continued.                              *)

\* the applications the run updated (in a dry run: would have updated)
UpdatedApps == {i \in 1..Len(apps) : apps[i].status \in {"applied", "dry run"}}

\* C16 (as claimed): at the end of a full run the 'updated' count is the
\* number of applications that were updated (an application left with 'no
\* changes' or skipped with an error is not counted), and the error count is
\* the number of applications with a recorded error, plus one if the
\* wallpaper has a recorded error.
C16_SummaryCounters ==
    pc = "done" =>
        /\ updates = Cardinality(UpdatedApps)
        /\ nErrors = Errors(apps)
                       + (IF wallpaper.set /\ wallpaper.error.occurred THEN 1 ELSE 0)

\* C17 (as claimed): setting the wallpaper with mode light or dark performs
\* no random selection, so it never fails with a failure of the random
\* directory (missing, not a directory, no files).
C17_NoRandomSelectionForMode ==
    \A i \in 1..Len(log) :
        (log[i].kind = "wallpaper" /\ mode \in Modes)
            => log[i].outcome \notin {"FileNotFoundError", "NotADirectoryError"}

---------------------------------------------------------------------------
(* Claims about one application (SpecApp): the next line.                  *)

\* the text s with its first occurrence of old replaced by new
FirstReplaced(s, old, new) ==
    IF \E i \in 1..Len(s) : OccursAt(old, s, i)
    THEN LET i == CHOOSE j \in 1..Len(s) :
                      /\ OccursAt(old, s, j)
                      /\ \A k \in 1..(j - 1) : ~OccursAt(old, s, k)
         IN SubSeq(s, 1, i - 1) \o new \o SubSeq(s, i + Len(old), Len(s))
    ELSE s

\* the last call was has_changes on a file in which the query matches
ChangesSought ==
    /\ call.op = "has_changes"
    /\ preDisk[TheApp.file].exists
    /\ find(TheApp.query, LinesBefore).idx # -1

\* C18 (as claimed): determine_next_theme(currentValue, mode), as has_changes
\* calls it with the captured value, returns for light and dark the matched
\* line with only the first occurrence of currentValue replaced by the value
\* of the mode, later occurrences being left as they are; for any other mode
\* it raises ThemeModeError.
C18_FirstOccurrenceReplaced ==
    /\ (ChangesSought /\ call.mode \in Modes /\ ValueOf(TheApp, call.mode) # <<>>)
          => /\ call.exc = NoExc
             /\ TheApp.next_theme
                   = FirstReplaced(LinesBefore[find(TheApp.query, LinesBefore).idx + 1],
                                   CapturedBefore, ValueOf(TheApp, call.mode))
    /\ (ChangesSought /\ call.mode \notin Modes) => call.exc = "ThemeModeError"

---------------------------------------------------------------------------
(* Claims about App.diff (SpecDiff).                                       *)

\* the index (0-based) of the line the query matches in the file
MatchedIdx == find(TheApp.query, LinesBefore).idx

\* the lines max(0, i-2) .. min(last, i+2) of the file, i the matched index
FiveLineWindow ==
    SubSeq(LinesBefore, Max(0, MatchedIdx - 2) + 1,
           Min(Len(LinesBefore) - 1, MatchedIdx + 2) + 1)

\* diff has nothing to show: no mode, a recorded error, or no changes
NothingToShow ==
    \/ call.mode = ""
    \/ call.erred
    \/ ~HasChanges(TheApp, preDisk, call.mode).ret

\* C19 (as claimed): diff(mode) returns the empty string when mode is
\* empty, when the application has a recorded error, or when
\* has_changes(mode) is false; otherwise it returns a non-empty string built
\* from the lines max(0, i-2) .. min(last, i+2) of the file, i the index of
\* the matched line.
C19_DiffWindow ==
    (call.op = "diff" /\ call.exc = NoExc) =>
        IF NothingToShow
        THEN call.ret.empty
        ELSE /\ ~call.ret.empty
             /\ call.ret.old = Concat(FiveLineWindow)

---------------------------------------------------------------------------
(* Claims about one application (SpecApp): the outcome of update.          *)

\* the last call was update on a file in which the query matches
UpdateSought ==
    /\ call.op = "update"
    /\ preDisk[TheApp.file].exists
    /\ find(TheApp.query, LinesBefore).idx # -1

\* C20 (as claimed): when the application's value for the requested mode is
\* the empty string, update(mode) ends with the status 'err not updated',
\* raises nothing and writes nothing; every update(mode) that returns ends in
\* one of the statuses 'no changes', 'err not updated', 'dry run', 'applied',
\* and the file is written only with 'applied'.
C20_EmptyTargetIsErrorStatus ==
    /\ (UpdateSought /\ call.mode \in Modes /\ ValueOf(TheApp, call.mode) = <<>>)
          => /\ call.exc = NoExc
             /\ TheApp.status = "err not updated"
             /\ disk = preDisk
    /\ (call.op = "update" /\ call.exc = NoExc)
          => TheApp.status \in {"no changes", "err not updated", "dry run", "applied"}
    /\ (call.op = "update" /\ disk # preDisk) => Updated("applied")

---------------------------------------------------------------------------
(* Claims about a full run (Spec): errors and dry runs.                    *)

\* the applications process_app returned for, in registration order
ProcessedApps ==
    {i \in 1..Len(apps) :
        /\ i <= Len(EventsOf("app"))
        /\ EventsOf("app")[i].outcome \notin Exceptions}

\* the application registered under a name (section names are unique)
Errored(name) ==
    \E i \in 1..Len(apps) : apps[i].name = name /\ apps[i].error.occurred

\* what holds of the applications with a recorded error in every state of a
\* run
ErroredNeverApplied ==
    /\ \A i \in 1..Len(apps) :
          apps[i].error.occurred
              => /\ apps[i].status # "applied"
                 /\ i <= Len(EventsOf("app")) => ~EventsOf("app")[i].done
    /\ (Len(EventsOf("app")) > 0 /\ apps[Len(EventsOf("app"))].error.occurred)
          => disk = preDisk
    /\ \A j \in 1..Len(commander) : ~Errored(commander[j].name)
    /\ \A j \in 1..Len(log) : log[j].kind = "appcmd" => ~Errored(log[j].name)
    /\ updates = Cardinality({i \in ProcessedApps : ~apps[i].error.occurred})

\* no step of a run clears a recorded error
ErrorKept ==
    \A i \in 1..Len(apps) : apps[i].error.occurred => apps'[i].error.occurred

\* C21: in every run through process_theme, an application whose error flag
\* is set (at validation or while it is processed) does not have its file
\* written by its processing, never has status 'applied', has its command
\* neither collected in the Commander nor executed, and is not counted in
\* Theme.updates; and the error flag, once set, stays set in every step.
C21_ErroredNeverApplied ==
    []ErroredNeverApplied /\ [][ErrorKept]_vars

\* C21 witness: a finished run in which the first application was applied
\* and its command executed, and the second one, valid when the theme was
\* parsed, got its error while it was processed (the first application had
\* rewritten the file they share) and was left alone
C21_Witness ==
    /\ pc = "done"
    /\ Len(apps) = 2
    /\ apps[1].status = "applied"
    /\ apps[2].error.occurred
    /\ apps[2].status = "no changes"
    /\ apps[2].cmd # ""
    /\ \E j \in 1..Len(log) :
          log[j].kind = "appcmd" /\ log[j].name = apps[1].name /\ log[j].done
    /\ updates = 1

\* C22: in a full run with dry-run enabled (Theme.dry_run and SysOps.dry_run
\* both set), for every theme definition and mode, no target file is
\* written, no mode command and no per-application command is executed, the
\* wallpaper command is not invoked, and no signal is sent to any process.
C22_DryRunNoEffect ==
    dryRun =>
        /\ disk = RunDisk
        /\ \A i \in 1..Len(apps) : apps[i].status # "applied"
        /\ \A j \in 1..Len(log) : log[j].kind # "signal" /\ ~log[j].done

\* C22 witness: a finished dry run that went through every phase: an
\* application with changes, the wallpaper, a mode command, the command of
\* the application, and the restart of a running program
C22_Witness ==
    /\ dryRun
    /\ pc = "done"
    /\ \E j \in 1..Len(log) : log[j].kind = "app" /\ log[j].outcome = "dry run"
    /\ \E j \in 1..Len(log) : log[j].kind = "wallpaper" /\ log[j].outcome = "dry run"
    /\ \E j \in 1..Len(log) : log[j].kind = "modecmd"
    /\ \E j \in 1..Len(log) : log[j].kind = "appcmd"
    /\ \E j \in 1..Len(log) : log[j].kind = "restart" /\ log[j].outcome = "dry run"
    /\ call.op = "restart" /\ call.pids # <<>>

====
